---- MODULE Spec2Model ----
(***************************************************************************)
(* Model of the media import of CatDVResolve: WebviewApi.import_json_clips *)
(* (src/plugin/main.py) and, below it, import_json_media with the simple   *)
(* and compound import paths of ResolveApiJsonHandler                      *)
(* (src/plugin/resolve.py), run against a model of the external media pool.*)
(***************************************************************************)
EXTENDS Integers, Sequences, FiniteSets, TLC

(***************************************************************************)
(* Bounds of the model                                                     *)
(***************************************************************************)
\* longest batch of descriptors handed to import_json_media
MaxBatch == 2
\* largest number of items the external ImportMedia returns for one file
MaxImportItems == 2
\* largest number of items on video track 1 of an imported timeline
MaxTrackItems == 2
NumInstances == 3
MaxRuns == 3

(***************************************************************************)
(* Program constants                                                       *)
(***************************************************************************)
simple_clip_types == {"clip", "still", "audio"}
complex_clip_types == {"subclip", "seq"}
compound_sources_bin_name == "CatDV Compound Sources"

\* identities of the external entities
NoId == 0
RootFolder == 1
UserFolder == 2
OldBin == 3
FirstFreshId == 10

(***************************************************************************)
(* Exceptions.  FileNotFoundError is the subclass of OSError that open()   *)
(* raises; TypeError stands for the errors outside the four caught types.  *)
(***************************************************************************)
IsInstance(e, t) == e = t \/ (e = "FileNotFoundError" /\ t = "OSError")

\* the except clause without OSError
CaughtTypes_NoOSError == {"ResolveAPIException", "JSONException", "NotImplementedError"}

CaughtTypes == {"ResolveAPIException", "JSONException", "OSError", "NotImplementedError"}

IsCaught(e) == \E t \in CaughtTypes : IsInstance(e, t)

(***************************************************************************)
(* Descriptors.  A decoded JSON value is abstracted by the properties the  *)
(* code inspects: whether it is a dict, which keys it has and the type of  *)
(* each value.                                                             *)
(***************************************************************************)
Marker(d, n, c, i, ifrm, o, ofrm) ==
    [is_dict |-> d, name |-> n, description |-> c,
     in |-> i, in_frm |-> ifrm, out |-> o, out_frm |-> ofrm]

PointMarker == Marker(TRUE, "str", "str", "int", 5, "absent", 0)
RangeMarker == Marker(TRUE, "str", "str", "int", 5, "int", 15)
\* a range from frame -5 to frame -1
EarlyRangeMarker == Marker(TRUE, "str", "str", "int", -5, "int", -1)
NamelessMarker == Marker(TRUE, "absent", "str", "int", 5, "absent", 0)
NotMappingMarker == Marker(FALSE, "absent", "absent", "absent", 0, "absent", 0)

Markers(p, it, l) == [present |-> p, iterable |-> it, list |-> l]

NoMarkers == Markers(FALSE, TRUE, <<>>)
NotIterableMarkers == Markers(TRUE, FALSE, <<>>)

Descriptor(d, t, m, n, id, no, mk, x) ==
    [is_dict |-> d, type |-> t, media |-> m, name |-> n, ID |-> id,
     notes |-> no, markers |-> mk, xml |-> x]

FullSimple(t, m) ==
    Descriptor(TRUE, t, m, "A", "present", "text",
               Markers(TRUE, TRUE, <<RangeMarker, PointMarker>>), "absent")

\* the values a descriptor's media field is drawn from
MediaKinds == {"absent", "not_dict", "no_filePath", "not_a_path", "missing", "existing"}

\* descriptors the batches of the model are built from
BatchDescriptors ==
    {Descriptor(FALSE, "absent", "absent", "absent", "absent", "absent", NoMarkers, "absent"),
     Descriptor(TRUE, "widget", "existing", "A", "present", "absent", NoMarkers, "absent"),
     FullSimple("clip", "existing"),
     FullSimple("still", "missing"),
     Descriptor(TRUE, "audio", "existing", "A", "absent", "absent", NoMarkers, "absent"),
     Descriptor(TRUE, "clip", "existing", "A", "present", "absent",
                Markers(TRUE, TRUE, <<NotMappingMarker>>), "absent"),
     Descriptor(TRUE, "seq", "absent", "A", "present", "absent", NoMarkers, "string"),
     Descriptor(TRUE, "subclip", "absent", "absent", "absent", "absent", NoMarkers, "absent")}

\* descriptors of the one-descriptor batches: every combination of the
\* fields a simple import reads, and every form of the XML field
SingleDescriptors ==
    BatchDescriptors
    \cup {Descriptor(TRUE, "absent", "existing", "A", "present", "absent", NoMarkers, "absent")}
    \cup {Descriptor(TRUE, t, m, "A", "present", "absent", NoMarkers, "absent") :
              t \in simple_clip_types, m \in MediaKinds}
    \cup {Descriptor(TRUE, "clip", "existing", n, id, no, mk, "absent") :
              n \in {"absent", "A"}, id \in {"absent", "present"},
              no \in {"absent", "null", "text"},
              mk \in {NoMarkers, NotIterableMarkers,
                      Markers(TRUE, TRUE, <<>>),
                      Markers(TRUE, TRUE, <<PointMarker>>),
                      Markers(TRUE, TRUE, <<RangeMarker, PointMarker>>),
                      Markers(TRUE, TRUE, <<PointMarker, NamelessMarker>>),
                      Markers(TRUE, TRUE, <<EarlyRangeMarker>>)}}
    \cup {Descriptor(TRUE, t, "absent", n, "present", "absent", NoMarkers, x) :
              t \in complex_clip_types, n \in {"absent", "A"},
              x \in {"absent", "string", "not_string"}}

RECURSIVE SeqsUpTo(_, _)

SeqsUpTo(S, n) ==
    IF n = 0 THEN {<<>>}
    ELSE LET shorter == SeqsUpTo(S, n - 1)
         IN  shorter \cup {Append(s, x) : s \in shorter, x \in S}

EmptyFn == [x \in {} |-> NoId]

VARIABLES
    unchecked_may_fail,    \* the external calls whose result the code never reads can fail
    media_data,            \* json_string as json_load_string sees it: [decodable, is_list, items]
    response,              \* what WebviewApi.import_json_clips returned: [form, message]
    pc,                    \* the statement about to run
    idx,                   \* position of the for loop in clip_element_list
    pool_items,            \* the result list being built
    error,                 \* exception in flight, "none" when there is none
    outcome,               \* "running", "returned" or "raised"
    \* the external media pool and file system
    folders,               \* folder id -> name; all but RootFolder are children of the root
    current_folder,        \* the pool's current folder
    clips,                 \* clip id -> [folder, name, description, comments, keywords, markers, start]
    timelines,             \* timeline id -> [video1: backing clip ids of the items of video track 1]
    files,                 \* temporary XML files that exist
    next_id,               \* next unused identity
    \* locals of the running import
    filepath,              \* result of get_clip_media_path / temporary_xml_filepath
    media_pool_item,       \* import_simple_json_clip
    marker_index,          \* position of the for loop in marker_list
    importing_to,          \* import_complex_json_clip
    compound_sources_bin,
    timeline,
    timeline_item,         \* backing clip of the item convert_to_compound_clip returned
    created_clip,
    \* a method of a handler called on its own
    call_args,             \* the objects it is called on
    call_result,           \* [done, value]: what it returned
    \* the instances of main (packages/catdv_resolve) started in one directory
    lock_path,             \* TRUE when the file .lock exists
    lock_creator,          \* the instance whose touch created the file, NoInstance if none
    instance,              \* instance -> [pc, created, error, status]
    \* CatDVInstaller (installer/catdv-resolve_installer.py)
    install_target,        \* the install target directory: [exists, entries]
    installer,             \* [pc, run, succeeded, error, made_target, step_failed, retry];
                           \* succeeded is "None", "True" or "False"
    \* history of the descriptor being processed
    item,                  \* [index, before, calls, created, tempfile, path, clip, import_ok,
                           \*  populate, last_ok]
    history                \* the item records of the descriptors processed so far

pool == <<folders, current_folder, clips, timelines, files, next_id>>
locals == <<filepath, media_pool_item, marker_index, importing_to,
            compound_sources_bin, timeline, timeline_item, created_clip>>
control == <<media_data, pc, idx, pool_items, error, outcome>>
launcher == <<lock_path, lock_creator, instance>>
installation == <<install_target, installer>>
vars == <<unchecked_may_fail, response, control, pool, locals, item, history,
          call_args, call_result, launcher, installation>>

(***************************************************************************)
(* WebviewApi (src/plugin/main.py): responses.  A message is the sequence  *)
(* of its lines.                                                           *)
(***************************************************************************)
\* WebviewApi.error_messages, in the order of the dict
error_messages ==
    <<[error_type |-> "ResolveAPIException",
       error_message |-> "Some items' could not be added to media pool, no reason given by Resolve API."],
      [error_type |-> "JSONException",
       error_message |-> "Some items' JSON was invalid, leading to incomplete media import or metadata."],
      [error_type |-> "OSError",
       error_message |-> "Some items could not be found in the filesystem."],
      [error_type |-> "NotImplementedError",
       error_message |-> "Some items were not on local storage, or were not masterclips. These features are not implemented."]>>

\* WebviewApi._log_and_return: the dict {"message": message}
log_and_return(message) == [form |-> "object", message |-> message]

\* a bare string returned in place of the dict
BareString(message) == [form |-> "string", message |-> message]

NoResponse == [form |-> "none", message |-> <<>>]

(***************************************************************************)
(* Initial states                                                          *)
(***************************************************************************)
\* the pools an import starts from: with and without a Staging Bin left by an
\* earlier run, the current folder being the root or a folder of the user
PoolInits ==
    {[folders |-> (RootFolder :> "Master"), current |-> RootFolder],
     [folders |-> (RootFolder :> "Master") @@ (UserFolder :> "Footage"), current |-> UserFolder],
     [folders |-> (RootFolder :> "Master") @@ (UserFolder :> "Footage")
                  @@ (OldBin :> compound_sources_bin_name), current |-> RootFolder]}

Snapshot ==
    [current_folder |-> current_folder, clips |-> clips, timelines |-> timelines,
     folders |-> folders, files |-> files]

\* the record of descriptor i before its processing starts:
\*   before     the pool when the processing of the descriptor began
\*   calls      the external calls made for it, in order
\*   created    the clips the external calls created for it
\*   tempfile   the temporary XML file created for it
\*   path       "simple", "complex" or "none"
\*   clip       the clip its import step produced
\*   import_ok  the import step returned
\*   populate   "none", "ok" or "failed"
\*   last_ok    the latest external call did not signal failure
NewItem(i, snapshot) ==
    [index |-> i, before |-> snapshot,
     calls |-> <<>>, created |-> {}, tempfile |-> NoId, path |-> "none", clip |-> NoId,
     import_ok |-> FALSE, populate |-> "none", last_ok |-> TRUE]

\* what the history keeps of a finished descriptor
Finished(it) ==
    [index |-> it.index, calls |-> it.calls, path |-> it.path, clip |-> it.clip,
     import_ok |-> it.import_ok, populate |-> it.populate]

NoItem ==
    NewItem(0, [current_folder |-> NoId, clips |-> EmptyFn, timelines |-> EmptyFn,
                folders |-> EmptyFn, files |-> {}])

\* no instance of main
NoInstance == 0

\* main (packages/catdv_resolve) is not started
NoLauncher ==
    /\ lock_path = FALSE
    /\ lock_creator = NoInstance
    /\ instance = <<>>

\* CatDVInstaller.execute is not called
NoInstaller ==
    /\ install_target = [exists |-> FALSE, entries |-> {}]
    /\ installer = [pc |-> "none", run |-> 0, succeeded |-> "None", error |-> "none",
                    made_target |-> FALSE, step_failed |-> FALSE, retry |-> FALSE]

InitRest(p) ==
    /\ response = NoResponse
    /\ pc = "import_json_clips"
    /\ idx = 1
    /\ pool_items = <<>>
    /\ error = "none"
    /\ outcome = "running"
    /\ folders = p.folders
    /\ current_folder = p.current
    /\ clips = EmptyFn
    /\ timelines = EmptyFn
    /\ files = {}
    /\ next_id = FirstFreshId
    /\ filepath = NoId
    /\ media_pool_item = NoId
    /\ marker_index = 1
    /\ importing_to = NoId
    /\ compound_sources_bin = NoId
    /\ timeline = NoId
    /\ timeline_item = NoId
    /\ created_clip = NoId
    /\ item = NoItem
    /\ history = <<>>

\* the payloads: a string that is not JSON, a JSON value that is not a list,
\* the batches of up to MaxBatch descriptors, and the one-descriptor batches
Payloads ==
    {[decodable |-> FALSE, is_list |-> FALSE, items |-> <<>>],
     [decodable |-> TRUE, is_list |-> FALSE, items |-> <<>>]}
    \cup {[decodable |-> TRUE, is_list |-> TRUE, items |-> s] :
              s \in SeqsUpTo(BatchDescriptors, MaxBatch)}
    \cup {[decodable |-> TRUE, is_list |-> TRUE, items |-> <<d>>] : d \in SingleDescriptors}

\* no handler method is called on its own
NotCalled == [done |-> FALSE, value |-> <<>>]

Init ==
    /\ call_args = <<>> /\ call_result = NotCalled
    /\ NoLauncher
    /\ NoInstaller
    /\ unchecked_may_fail = FALSE
    /\ media_data \in Payloads
    /\ \E p \in PoolInits : InitRest(p)

\* the batches of at most one descriptor, against a pool whose DeleteClips, DeleteTimelines,
\* SetClipProperty, SetMetadata, AddMarker and GetRootFolder can fail
InitUncheckedMayFail ==
    /\ call_args = <<>> /\ call_result = NotCalled
    /\ NoLauncher
    /\ NoInstaller
    /\ unchecked_may_fail = TRUE
    /\ media_data \in {p \in Payloads : Len(p.items) <= 1}
    /\ \E p \in PoolInits : InitRest(p)

(***************************************************************************)
(* Helpers                                                                 *)
(***************************************************************************)
clip_data == media_data.items[idx]

\* the external call name was made and returned a result
Call(name) == [item EXCEPT !.calls = Append(@, name), !.last_ok = TRUE]

\* the external call name was made and signalled failure (None or False)
CallFailed(name) == [item EXCEPT !.calls = Append(@, name), !.last_ok = FALSE]

Without(f, k) == [x \in DOMAIN f \ {k} |-> f[x]]

\* raise e out of import_single_json_clip: the for loop's except clause is next
Raise(e) == error' = e /\ pc' = "except"

(***************************************************************************)
(* WebviewApi.import_json_clips                                            *)
(***************************************************************************)
\* data = json_load_string(json_string); JSONDecodeError is answered at once
import_json_clips ==
    /\ pc = "import_json_clips"
    /\ IF media_data.decodable
       THEN pc' = "import_json_media" /\ UNCHANGED response
       ELSE /\ response' = log_and_return(<<"Invalid JSON Provided.">>)
            /\ pc' = "responded"
    /\ UNCHANGED <<call_args, call_result, launcher, installation>>
    /\ UNCHANGED <<unchecked_may_fail, media_data, idx, pool_items, error, outcome, pool,
                   locals, item, history>>

\* the lines of error_messages whose type is the type of an entry of
\* new_clips: any([type(clip) == error_type for clip in new_clips])
error_message_stack(new_clips) ==
    LET present(k) == \E i \in DOMAIN new_clips :
                          /\ new_clips[i].kind = "error"
                          /\ new_clips[i].error = error_messages[k].error_type
        RECURSIVE stack(_)
        stack(k) == IF k = 0 THEN <<>>
                    ELSE IF present(k) THEN Append(stack(k - 1), error_messages[k].error_message)
                    ELSE stack(k - 1)
    IN  stack(Len(error_messages))

\* import_json_clips answering every exception as it answers JSONException
import_json_clips_return_OneExceptClause ==
    /\ pc = "done"
    /\ response' =
          IF outcome = "raised"
          THEN log_and_return(<<"Invalid JSON Provided.">>)
          ELSE LET stack == error_message_stack(pool_items)
               IN  IF Len(stack) > 0
                   THEN log_and_return(
                            <<"Some items may have been imported successfully, however:">>
                            \o stack)
                   ELSE log_and_return(<<"Successfully added item(s) to media pool.">>)
    /\ error' = "none"
    /\ pc' = "responded"
    /\ UNCHANGED <<call_args, call_result, launcher, installation>>
    /\ UNCHANGED <<unchecked_may_fail, media_data, idx, pool_items, outcome, pool, locals,
                   item, history>>

\* import_json_clips from the return of import_json_media on: the except
\* clauses, the error summary and the success message
import_json_clips_return ==
    /\ pc = "done"
    /\ response' =
          IF outcome = "raised"
          THEN IF error = "JSONException"
               THEN log_and_return(<<"Invalid JSON Provided.">>)
               ELSE BareString(<<"Encountered unexpected exception.", "traceback">>)
          ELSE LET stack == error_message_stack(pool_items)
               IN  IF Len(stack) > 0
                   THEN log_and_return(
                            <<"Some items may have been imported successfully, however:">>
                            \o stack)
                   ELSE log_and_return(<<"Successfully added item(s) to media pool.">>)
    /\ error' = "none"
    /\ pc' = "responded"
    /\ UNCHANGED <<call_args, call_result, launcher, installation>>
    /\ UNCHANGED <<unchecked_may_fail, media_data, idx, pool_items, outcome, pool, locals,
                   item, history>>

(***************************************************************************)
(* import_json_media                                                       *)
(***************************************************************************)
\* import_json_media letting the AssertionError of the list test escape
import_json_media_AssertionEscapes ==
    /\ pc = "import_json_media"
    /\ IF media_data.is_list
       THEN /\ pc' = "for"
            /\ UNCHANGED <<error, outcome>>
       ELSE /\ error' = "AssertionError"
            /\ outcome' = "raised"
            /\ pc' = "done"
    /\ UNCHANGED <<unchecked_may_fail, response, call_args, call_result, launcher, installation>>
    /\ UNCHANGED <<media_data, idx, pool_items, pool, locals, item>>
    /\ UNCHANGED history

import_json_media ==
    /\ pc = "import_json_media"
    /\ IF media_data.is_list
       THEN /\ pc' = "for"
            /\ UNCHANGED <<error, outcome>>
       ELSE /\ error' = "JSONException"
            /\ outcome' = "raised"
            /\ pc' = "done"
    /\ UNCHANGED <<unchecked_may_fail, response, call_args, call_result, launcher, installation>>
    /\ UNCHANGED <<media_data, idx, pool_items, pool, locals, item>>
    /\ UNCHANGED history

\* head of "for clip_json in clip_element_list"
for_clip_json ==
    /\ pc = "for"
    /\ IF idx <= Len(media_data.items)
       THEN /\ pc' = "import_single_json_clip"
            /\ item' = NewItem(idx, Snapshot)
            /\ UNCHANGED outcome
       ELSE /\ pc' = "done"
            /\ outcome' = "returned"
            /\ UNCHANGED item
    /\ UNCHANGED <<unchecked_may_fail, response, call_args, call_result, launcher, installation>>
    /\ UNCHANGED <<media_data, idx, pool_items, error, pool, locals>>
    /\ UNCHANGED history

\* import_single_json_clip raising the validation error for an unknown type
import_single_json_clip_UnknownIsInvalid ==
    /\ pc = "import_single_json_clip"
    /\ IF ~clip_data.is_dict THEN Raise("JSONException") /\ UNCHANGED item
       ELSE IF clip_data.type = "absent" THEN Raise("JSONException") /\ UNCHANGED item
       ELSE IF clip_data.type \in simple_clip_types
            THEN /\ pc' = "get_clip_media_path"
                 /\ item' = [item EXCEPT !.path = "simple"]
                 /\ UNCHANGED error
       ELSE IF clip_data.type \in complex_clip_types
            THEN /\ pc' = "get_current_folder"
                 /\ item' = [item EXCEPT !.path = "complex"]
                 /\ UNCHANGED error
       ELSE Raise("JSONException") /\ UNCHANGED item
    /\ UNCHANGED <<unchecked_may_fail, response, call_args, call_result, launcher, installation>>
    /\ UNCHANGED <<media_data, idx, pool_items, outcome, pool, locals>>
    /\ UNCHANGED history

import_single_json_clip ==
    /\ pc = "import_single_json_clip"
    /\ IF ~clip_data.is_dict THEN Raise("JSONException") /\ UNCHANGED item
       ELSE IF clip_data.type = "absent" THEN Raise("JSONException") /\ UNCHANGED item
       ELSE IF clip_data.type \in simple_clip_types
            THEN /\ pc' = "get_clip_media_path"
                 /\ item' = [item EXCEPT !.path = "simple"]
                 /\ UNCHANGED error
       ELSE IF clip_data.type \in complex_clip_types
            THEN /\ pc' = "get_current_folder"
                 /\ item' = [item EXCEPT !.path = "complex"]
                 /\ UNCHANGED error
       ELSE Raise("NotImplementedError") /\ UNCHANGED item
    /\ UNCHANGED <<unchecked_may_fail, response, call_args, call_result, launcher, installation>>
    /\ UNCHANGED <<media_data, idx, pool_items, outcome, pool, locals>>
    /\ UNCHANGED history

\* pool_items.append(<the returned clip>)
append_clip ==
    /\ pc = "append"
    /\ pool_items' = Append(pool_items,
           [kind |-> "clip",
            clip |-> IF item.path = "simple" THEN media_pool_item ELSE created_clip,
            error |-> "none"])
    /\ idx' = idx + 1
    /\ pc' = "for"
    /\ history' = Append(history, Finished(item))
    /\ UNCHANGED <<unchecked_may_fail, response, call_args, call_result, launcher, installation>>
    /\ UNCHANGED <<media_data, error, outcome, pool, locals, item>>

\* except (ResolveAPIException, JSONException, OSError, NotImplementedError)
except_append_error ==
    /\ pc = "except"
    /\ IsCaught(error)
    /\ pool_items' = Append(pool_items, [kind |-> "error", clip |-> NoId, error |-> error])
    /\ error' = "none"
    /\ idx' = idx + 1
    /\ pc' = "for"
    /\ history' = Append(history, Finished(item))
    /\ UNCHANGED <<unchecked_may_fail, response, call_args, call_result, launcher, installation>>
    /\ UNCHANGED <<media_data, outcome, pool, locals, item>>

\* the escaping exception taking the clips of the earlier descriptors along
except_escape_RollsBack ==
    /\ pc = "except"
    /\ ~IsCaught(error)
    /\ outcome' = "raised"
    /\ pc' = "done"
    /\ history' = Append(history, Finished(item))
    /\ clips' = [c \in DOMAIN clips \ {pool_items[j].clip : j \in DOMAIN pool_items}
                    |-> clips[c]]
    /\ UNCHANGED <<unchecked_may_fail, response, call_args, call_result, launcher, installation>>
    /\ UNCHANGED <<media_data, idx, pool_items, error, locals, item>>
    /\ UNCHANGED <<folders, current_folder, timelines, files, next_id>>

\* any other exception leaves import_json_media
except_escape ==
    /\ pc = "except"
    /\ ~IsCaught(error)
    /\ outcome' = "raised"
    /\ pc' = "done"
    /\ history' = Append(history, Finished(item))
    /\ UNCHANGED <<unchecked_may_fail, response, call_args, call_result, launcher, installation>>
    /\ UNCHANGED <<media_data, idx, pool_items, error, pool, locals, item>>

(***************************************************************************)
(* Simple path: import_simple_json_clip                                    *)
(***************************************************************************)
\* the clip start frames the external GetClipProperty("Start") reports
StartFrames == {0, 2}

\* a clip as the external pool creates it; its start frame is fixed by the
\* pool and first read by add_marker (-1: not yet read)
NewClip(folder) ==
    [folder |-> folder, name |-> "file name", description |-> "", comments |-> "",
     keywords |-> "imported", markers |-> <<>>, start |-> -1, writes |-> <<>>]

\* get_clip_media_path without the is_file() test
get_clip_media_path_NoFileCheck(d) ==
    IF d.media \in {"absent", "not_dict", "no_filePath"} THEN "JSONException"
    ELSE IF d.media = "not_a_path" THEN "JSONException"
    ELSE "ok"

\* result of get_clip_media_path: the exception raised, or "ok"
get_clip_media_path(d) ==
    IF d.media \in {"absent", "not_dict", "no_filePath"} THEN "JSONException"
    ELSE IF d.media = "not_a_path" THEN "JSONException"
    ELSE IF d.media = "missing" THEN "OSError"
    ELSE "ok"

add_single_clip_to_media_pool ==
    /\ pc = "get_clip_media_path"
    /\ LET r == get_clip_media_path(clip_data)
       IN  IF r = "ok"
           THEN pc' = "add_media_filepaths" /\ UNCHANGED error
           ELSE Raise(r)
    /\ UNCHANGED <<unchecked_may_fail, response, call_args, call_result, launcher, installation>>
    /\ UNCHANGED <<media_data, idx, pool_items, outcome, pool, locals, item>>
    /\ UNCHANGED history

\* ResolveMediaPoolHandler.add_media_filepaths([filepath])[0];
\* n = -1 is ImportMedia returning None, n = 0 the empty list; the last
\* disjunct is ImportMedia returning a falsy value that has no length
add_media_filepaths ==
    /\ pc = "add_media_filepaths"
    /\ \/ \E n \in -1 .. MaxImportItems :
             IF n <= 0
             THEN /\ Raise("ResolveAPIException")
                  /\ item' = CallFailed("ImportMedia")
                  /\ UNCHANGED <<clips, next_id, media_pool_item>>
             ELSE LET new == next_id .. next_id + n - 1
                  IN  /\ clips' = [c \in DOMAIN clips \cup new |->
                                      IF c \in new THEN NewClip(current_folder)
                                      ELSE clips[c]]
                      /\ next_id' = next_id + n
                      /\ media_pool_item' = next_id
                      /\ item' = [Call("ImportMedia") EXCEPT !.created = @ \cup new,
                                                             !.clip = next_id,
                                                             !.import_ok = TRUE]
                      /\ pc' = "set_pool_item_name"
                      /\ UNCHANGED error
       \/ \* ImportMedia returns False: len(False) raises TypeError inside the try,
          \* whose except clause names AssertionError only
          /\ Raise("TypeError")
          /\ item' = CallFailed("ImportMedia")
          /\ UNCHANGED <<clips, next_id, media_pool_item>>
    /\ UNCHANGED <<unchecked_may_fail, response, call_args, call_result, launcher, installation>>
    /\ UNCHANGED <<media_data, idx, pool_items, outcome, folders, current_folder,
                   timelines, files, filepath, marker_index, importing_to,
                   compound_sources_bin, timeline, timeline_item, created_clip>>
    /\ UNCHANGED history

\* an exception inside populate_pool_item_metadata: the handler of
\* import_simple_json_clip ("except Exception") is next
\* import_simple_json_clip without its except clause
RaiseInPopulate_NoRollback(e) ==
    /\ error' = e
    /\ pc' = "except"
    /\ item' = [item EXCEPT !.populate = "failed"]

RaiseInPopulate(e) ==
    /\ error' = e
    /\ pc' = "remove_clips"
    /\ item' = [item EXCEPT !.populate = "failed"]

Write(c, field, value, what) ==
    clips' = [clips EXCEPT ![c] = [@ EXCEPT ![field] = value, !.writes = Append(@, what)]]

\* ResolveClipHandler.get_name: the external GetName() reads the clip name
get_name(c) == clips[c].name

\* set_pool_item_name reading the name without writing it
set_pool_item_name_NoWrite ==
    /\ pc = "set_pool_item_name"
    /\ IF clip_data.name = "absent"
       THEN RaiseInPopulate("JSONException")
       ELSE /\ pc' = "set_pool_item_description"
            /\ UNCHANGED <<error, item>>
    /\ UNCHANGED <<unchecked_may_fail, response, call_args, call_result, launcher, installation>>
    /\ UNCHANGED <<media_data, idx, pool_items, outcome, pool, locals>>
    /\ UNCHANGED history

\* @redirect_key_errors set_pool_item_name
set_pool_item_name ==
    /\ pc = "set_pool_item_name"
    /\ IF clip_data.name = "absent"
       THEN RaiseInPopulate("JSONException") /\ UNCHANGED clips
       ELSE /\ \/ /\ Write(media_pool_item, "name", clip_data.name, "Clip Name")
                  /\ item' = Call("SetClipProperty")
               \/ /\ unchecked_may_fail
                  /\ item' = CallFailed("SetClipProperty")
                  /\ UNCHANGED clips
            /\ pc' = "set_pool_item_description"
            /\ UNCHANGED error
    /\ UNCHANGED <<unchecked_may_fail, response, call_args, call_result, launcher, installation>>
    /\ UNCHANGED <<media_data, idx, pool_items, outcome, folders, current_folder,
                   timelines, files, next_id, locals>>
    /\ UNCHANGED history

\* @redirect_key_errors set_pool_item_description
set_pool_item_description ==
    /\ pc = "set_pool_item_description"
    /\ IF clip_data.ID = "absent"
       THEN RaiseInPopulate("JSONException") /\ UNCHANGED clips
       ELSE /\ \/ /\ Write(media_pool_item, "description", "CatDV Asset ID", "Description")
                  /\ item' = Call("SetMetadata")
               \/ /\ unchecked_may_fail
                  /\ item' = CallFailed("SetMetadata")
                  /\ UNCHANGED clips
            /\ pc' = "set_pool_item_comment"
            /\ UNCHANGED error
    /\ UNCHANGED <<unchecked_may_fail, response, call_args, call_result, launcher, installation>>
    /\ UNCHANGED <<media_data, idx, pool_items, outcome, folders, current_folder,
                   timelines, files, next_id, locals>>
    /\ UNCHANGED history

\* set_pool_item_comment decorated with redirect_key_errors
set_pool_item_comment_redirect ==
    /\ pc = "set_pool_item_comment"
    /\ IF clip_data.notes = "absent"
       THEN RaiseInPopulate("JSONException") /\ UNCHANGED clips
       ELSE IF clip_data.notes = "null"
       THEN pc' = "add_all_markers_to_pool_item" /\ UNCHANGED <<clips, item, error>>
       ELSE /\ Write(media_pool_item, "comments", clip_data.notes, "Comments")
            /\ item' = Call("SetMetadata")
            /\ pc' = "add_all_markers_to_pool_item"
            /\ UNCHANGED error
    /\ UNCHANGED <<unchecked_may_fail, response, call_args, call_result, launcher, installation>>
    /\ UNCHANGED <<media_data, idx, pool_items, outcome, folders, current_folder,
                   timelines, files, next_id, locals, history>>

\* @ignore_key_errors set_pool_item_comment
set_pool_item_comment ==
    /\ pc = "set_pool_item_comment"
    /\ IF clip_data.notes \in {"absent", "null"}
       THEN UNCHANGED <<clips, item>>
       ELSE \/ /\ Write(media_pool_item, "comments", clip_data.notes, "Comments")
               /\ item' = Call("SetMetadata")
            \/ /\ unchecked_may_fail
               /\ item' = CallFailed("SetMetadata")
               /\ UNCHANGED clips
    /\ pc' = "add_all_markers_to_pool_item"
    /\ UNCHANGED <<unchecked_may_fail, response, call_args, call_result, launcher, installation>>
    /\ UNCHANGED <<media_data, idx, pool_items, error, outcome, folders, current_folder,
                   timelines, files, next_id, locals>>
    /\ UNCHANGED history

\* add_all_markers_to_pool_item: the lookup of "markers" and the head of
\* "for marker_data in marker_list"
add_all_markers_to_pool_item ==
    /\ pc = "add_all_markers_to_pool_item"
    /\ IF ~clip_data.markers.present
       THEN pc' = "set_keywords" /\ UNCHANGED <<error, item>>
       ELSE IF ~clip_data.markers.iterable
       THEN RaiseInPopulate("TypeError")
       ELSE IF marker_index <= Len(clip_data.markers.list)
       THEN pc' = "add_marker_to_pool_item" /\ UNCHANGED <<error, item>>
       ELSE pc' = "set_keywords" /\ UNCHANGED <<error, item>>
    /\ UNCHANGED <<unchecked_may_fail, response, call_args, call_result, launcher, installation>>
    /\ UNCHANGED <<media_data, idx, pool_items, outcome, pool, locals>>
    /\ UNCHANGED history

\* the exception add_marker_to_pool_item raises on marker m, or "ok"
marker_validation(m) ==
    IF ~m.is_dict THEN "TypeError"
    ELSE IF m.name # "str" THEN "JSONException"
    ELSE IF m.description # "str" THEN "JSONException"
    ELSE IF m.in # "int" THEN "JSONException"
    ELSE IF m.out \notin {"absent", "int"} THEN "JSONException"
    ELSE "ok"

\* out_frame as add_marker_to_pool_item passes it on
marker_out_frame(m) == IF m.out = "absent" THEN -1 ELSE m.out_frm

\* add_marker without the test "if out_frame == -1"
add_marker_NoSentinel(in_frame, out_frame, clip_start_frame) ==
    [frame |-> in_frame - clip_start_frame,
     duration |-> out_frame - in_frame]

\* ResolveClipHandler.add_marker: the arguments of the external AddMarker
add_marker(in_frame, out_frame, clip_start_frame) ==
    [frame |-> in_frame - clip_start_frame,
     duration |-> IF out_frame = -1 THEN 1 ELSE out_frame - in_frame]

add_marker_to_pool_item ==
    /\ pc = "add_marker_to_pool_item"
    /\ LET m == clip_data.markers.list[marker_index]
           r == marker_validation(m)
       IN  IF r # "ok"
           THEN RaiseInPopulate(r) /\ UNCHANGED <<clips, marker_index>>
           ELSE /\ \E clip_start_frame \in StartFrames :
                     /\ clips[media_pool_item].start \in {-1, clip_start_frame}
                     /\ \/ /\ clips' = [clips EXCEPT ![media_pool_item] =
                                 [@ EXCEPT !.markers = Append(@, add_marker(m.in_frm,
                                                                  marker_out_frame(m),
                                                                  clip_start_frame)),
                                           !.start = clip_start_frame,
                                           !.writes = Append(@, "Marker")]]
                           /\ item' = Call("AddMarker")
                        \/ /\ unchecked_may_fail
                           /\ clips' = [clips EXCEPT ![media_pool_item].start = clip_start_frame]
                           /\ item' = CallFailed("AddMarker")
                /\ marker_index' = marker_index + 1
                /\ pc' = "add_all_markers_to_pool_item"
                /\ UNCHANGED error
    /\ UNCHANGED <<unchecked_may_fail, response, call_args, call_result, launcher, installation>>
    /\ UNCHANGED <<media_data, idx, pool_items, outcome, folders, current_folder,
                   timelines, files, next_id, filepath, media_pool_item, importing_to,
                   compound_sources_bin, timeline, timeline_item, created_clip>>
    /\ UNCHANGED history

RECURSIVE join(_, _)

\* sep.join(keywords)
join(sep, keywords) ==
    IF keywords = <<>> THEN ""
    ELSE IF Len(keywords) = 1 THEN keywords[1]
    ELSE keywords[1] \o sep \o join(sep, Tail(keywords))

\* populate_pool_item_metadata ending without the write of the keywords
set_keywords_NoWrite ==
    /\ pc = "set_keywords"
    /\ item' = [item EXCEPT !.populate = "ok"]
    /\ marker_index' = 1
    /\ pc' = "append"
    /\ UNCHANGED <<unchecked_may_fail, response, call_args, call_result, launcher, installation>>
    /\ UNCHANGED <<media_data, idx, pool_items, error, outcome, pool, filepath,
                   media_pool_item, importing_to, compound_sources_bin, timeline,
                   timeline_item, created_clip>>
    /\ UNCHANGED history

\* clip.set_keywords([]), the last statement of populate_pool_item_metadata:
\* SetMetadata("Keywords", ",".join([]))
set_keywords ==
    /\ pc = "set_keywords"
    /\ \/ /\ Write(media_pool_item, "keywords", join(",", <<>>), "Keywords")
          /\ item' = [Call("SetMetadata") EXCEPT !.populate = "ok"]
       \/ /\ unchecked_may_fail
          /\ item' = [CallFailed("SetMetadata") EXCEPT !.populate = "ok"]
          /\ UNCHANGED clips
    /\ marker_index' = 1
    /\ pc' = "append"
    /\ UNCHANGED <<unchecked_may_fail, response, call_args, call_result, launcher, installation>>
    /\ UNCHANGED <<media_data, idx, pool_items, error, outcome, folders, current_folder,
                   timelines, files, next_id, filepath, media_pool_item, importing_to,
                   compound_sources_bin, timeline, timeline_item, created_clip>>
    /\ UNCHANGED history

\* except Exception as error: media_pool.remove_clips([media_pool_item]); raise error
remove_clips ==
    /\ pc = "remove_clips"
    /\ \/ /\ clips' = Without(clips, media_pool_item)
          /\ item' = Call("DeleteClips")
       \/ /\ unchecked_may_fail
          /\ item' = CallFailed("DeleteClips")
          /\ UNCHANGED clips
    /\ marker_index' = 1
    /\ pc' = "except"
    /\ UNCHANGED <<unchecked_may_fail, response, call_args, call_result, launcher, installation>>
    /\ UNCHANGED <<media_data, idx, pool_items, error, outcome, folders, current_folder,
                   timelines, files, next_id, filepath, media_pool_item, importing_to,
                   compound_sources_bin, timeline, timeline_item, created_clip>>
    /\ UNCHANGED history

(***************************************************************************)
(* Compound path: import_complex_json_clip                                 *)
(***************************************************************************)
\* importing_to = media_pool.get_current_folder()
get_current_folder ==
    /\ pc = "get_current_folder"
    /\ \/ /\ Raise("ResolveAPIException")
          /\ item' = CallFailed("GetCurrentFolder")
          /\ UNCHANGED importing_to
       \/ /\ importing_to' = current_folder
          /\ item' = Call("GetCurrentFolder")
          /\ pc' = "get_compound_sources_bin"
          /\ UNCHANGED error
    /\ UNCHANGED <<unchecked_may_fail, response, call_args, call_result, launcher, installation>>
    /\ UNCHANGED <<media_data, idx, pool_items, outcome, pool, filepath, media_pool_item,
                   marker_index, compound_sources_bin, timeline, timeline_item, created_clip>>
    /\ UNCHANGED history

\* ResolveFolderHandler.get_subfolder_by_name on the root folder: the
\* subfolders with that name, of which the code returns the first
\* a lookup that never finds the folder
subfolders_by_name_NotFound(name) == {}

subfolders_by_name(name) == {f \in DOMAIN folders \ {RootFolder} : folders[f] = name}

Min(S) == CHOOSE x \in S : \A y \in S : x <= y

\* get_compound_sources_bin: the lookup; NotFoundException leads to the creation
get_compound_sources_bin ==
    /\ pc = "get_compound_sources_bin"
    /\ \/ LET found == subfolders_by_name(compound_sources_bin_name)
          IN  /\ IF found # {}
                 THEN /\ compound_sources_bin' = Min(found)
                      /\ pc' = "set_current_folder"
                 ELSE /\ pc' = "create_compound_sources_bin"
                      /\ UNCHANGED compound_sources_bin
              /\ item' = Call("GetSubFolderList")
              /\ UNCHANGED error
       \/ \* GetRootFolder returns None: ResolveFolderHandler(None).get_subfolder_list()
          /\ unchecked_may_fail
          /\ Raise("AttributeError")
          /\ item' = CallFailed("GetRootFolder")
          /\ UNCHANGED compound_sources_bin
    /\ UNCHANGED <<unchecked_may_fail, response, call_args, call_result, launcher, installation>>
    /\ UNCHANGED <<media_data, idx, pool_items, outcome, pool, filepath,
                   media_pool_item, marker_index, importing_to, timeline, timeline_item,
                   created_clip>>
    /\ UNCHANGED history

\* create_compound_sources_bin: media_pool.add_subfolder(root, name)
create_compound_sources_bin ==
    /\ pc = "create_compound_sources_bin"
    /\ \/ /\ Raise("ResolveAPIException")
          /\ item' = CallFailed("AddSubFolder")
          /\ UNCHANGED <<folders, next_id, compound_sources_bin>>
       \/ /\ folders' = folders @@ (next_id :> compound_sources_bin_name)
          /\ item' = Call("AddSubFolder")
          /\ compound_sources_bin' = next_id
          /\ next_id' = next_id + 1
          /\ pc' = "set_current_folder"
          /\ UNCHANGED error
    /\ UNCHANGED <<unchecked_may_fail, response, call_args, call_result, launcher, installation>>
    /\ UNCHANGED <<media_data, idx, pool_items, outcome, current_folder, clips, timelines,
                   files, filepath, media_pool_item, marker_index, importing_to, timeline,
                   timeline_item, created_clip>>
    /\ UNCHANGED history

\* media_pool.set_current_folder(compound_sources_bin)
set_current_folder ==
    /\ pc = "set_current_folder"
    /\ \/ /\ Raise("ResolveAPIException")
          /\ item' = CallFailed("SetCurrentFolder")
          /\ UNCHANGED current_folder
       \/ /\ current_folder' = compound_sources_bin
          /\ item' = Call("SetCurrentFolder")
          /\ pc' = "import_complex_json_clip_to_timeline"
          /\ UNCHANGED error
    /\ UNCHANGED <<unchecked_may_fail, response, call_args, call_result, launcher, installation>>
    /\ UNCHANGED <<media_data, idx, pool_items, outcome, folders, clips, timelines, files,
                   next_id, locals>>
    /\ UNCHANGED history

\* import_complex_json_clip_to_timeline: xml_content = clip_data["subclip.xml"]
import_complex_json_clip_to_timeline ==
    /\ pc = "import_complex_json_clip_to_timeline"
    /\ IF clip_data.xml = "absent"
       THEN Raise("JSONException")
       ELSE pc' = "write_temporary_xml_file" /\ UNCHANGED error
    /\ UNCHANGED <<unchecked_may_fail, response, call_args, call_result, launcher, installation>>
    /\ UNCHANGED <<media_data, idx, pool_items, outcome, pool, locals, item>>
    /\ UNCHANGED history

\* with open(temporary_xml_filepath, "w") as f: f.write(xml_content)
write_temporary_xml_file ==
    /\ pc = "write_temporary_xml_file"
    /\ \/ \* open() fails: no file is created
          /\ Raise("FileNotFoundError")
          /\ UNCHANGED <<files, next_id, filepath, item>>
       \/ \* open() creates the file
          /\ files' = files \cup {next_id}
          /\ next_id' = next_id + 1
          /\ filepath' = next_id
          /\ item' = [item EXCEPT !.tempfile = next_id]
          /\ IF clip_data.xml # "string"
             THEN Raise("TypeError")
             ELSE \/ Raise("OSError")
                  \/ pc' = "add_xml_timeline" /\ UNCHANGED error
    /\ UNCHANGED <<unchecked_may_fail, response, call_args, call_result, launcher, installation>>
    /\ UNCHANGED <<media_data, idx, pool_items, outcome, folders, current_folder, clips,
                   timelines, media_pool_item, marker_index, importing_to,
                   compound_sources_bin, timeline, timeline_item, created_clip>>
    /\ UNCHANGED history

\* media_pool.add_xml_timeline(path), inside "with closing(DeletingFile(path))";
\* the imported timeline has n items on video track 1, each backed by a
\* source clip the import adds to the current folder
add_xml_timeline ==
    /\ pc = "add_xml_timeline"
    /\ \/ /\ error' = "ResolveAPIException"
          /\ item' = CallFailed("ImportTimelineFromFile")
          /\ UNCHANGED <<clips, timelines, next_id, timeline>>
       \/ \E n \in 0 .. MaxTrackItems :
             LET new == next_id + 1 .. next_id + n
             IN  /\ timelines' = timelines @@ (next_id :> [video1 |-> [i \in 1 .. n |-> next_id + i]])
                 /\ clips' = [c \in DOMAIN clips \cup new |->
                                 IF c \in new THEN NewClip(current_folder) ELSE clips[c]]
                 /\ timeline' = next_id
                 /\ next_id' = next_id + n + 1
                 /\ item' = [Call("ImportTimelineFromFile") EXCEPT !.created = @ \cup new]
                 /\ UNCHANGED error
    /\ pc' = "DeletingFile_close"
    /\ UNCHANGED <<unchecked_may_fail, response, call_args, call_result, launcher, installation>>
    /\ UNCHANGED <<media_data, idx, pool_items, outcome, folders, current_folder, files,
                   filepath, media_pool_item, marker_index, importing_to,
                   compound_sources_bin, timeline_item, created_clip>>
    /\ UNCHANGED history

\* DeletingFile.close on leaving the with block: self.file.unlink()
DeletingFile_close ==
    /\ pc = "DeletingFile_close"
    /\ files' = files \ {filepath}
    /\ pc' = IF error = "none" THEN "convert_to_compound_clip" ELSE "except"
    /\ UNCHANGED <<unchecked_may_fail, response, call_args, call_result, launcher, installation>>
    /\ UNCHANGED <<media_data, idx, pool_items, error, outcome, folders, current_folder,
                   clips, timelines, next_id, locals, item>>
    /\ UNCHANGED history

\* ResolveTimelineHandler.convert_to_compound_clip
convert_to_compound_clip ==
    /\ pc = "convert_to_compound_clip"
    /\ \/ \* CreateCompoundClip returns a new item: a compound clip in the current folder
          /\ clips' = clips @@ (next_id :> NewClip(current_folder))
          /\ item' = [Call("CreateCompoundClip") EXCEPT !.created = @ \cup {next_id}]
          /\ timeline_item' = next_id
          /\ next_id' = next_id + 1
          /\ pc' = "get_media_pool_item"
          /\ UNCHANGED error
       \/ \* CreateCompoundClip returns None: video_one_items.pop()
          LET video_one_items == timelines[timeline].video1
          IN  /\ IF Len(video_one_items) = 0
                 THEN Raise("ResolveAPIException") /\ UNCHANGED timeline_item
                 ELSE /\ timeline_item' = video_one_items[Len(video_one_items)]
                      /\ pc' = "get_media_pool_item"
                      /\ UNCHANGED error
              /\ item' = CallFailed("CreateCompoundClip")
              /\ UNCHANGED <<clips, next_id>>
    /\ UNCHANGED <<unchecked_may_fail, response, call_args, call_result, launcher, installation>>
    /\ UNCHANGED <<media_data, idx, pool_items, outcome, folders, current_folder, timelines,
                   files, filepath, media_pool_item, marker_index, importing_to,
                   compound_sources_bin, timeline, created_clip>>
    /\ UNCHANGED history

\* the backing-item lookup followed at once by the move of the clip
get_media_pool_item_ThenMove ==
    /\ pc = "get_media_pool_item"
    /\ \/ /\ Raise("ResolveAPIException")
          /\ item' = CallFailed("GetMediaPoolItem")
          /\ UNCHANGED created_clip
       \/ /\ created_clip' = timeline_item
          /\ item' = Call("GetMediaPoolItem")
          /\ pc' = "move_clips"
          /\ UNCHANGED error
    /\ UNCHANGED <<unchecked_may_fail, response, call_args, call_result, launcher, installation>>
    /\ UNCHANGED <<media_data, idx, pool_items, outcome, pool, filepath, media_pool_item,
                   marker_index, importing_to, compound_sources_bin, timeline, timeline_item>>
    /\ UNCHANGED history

\* ResolveTimelineItemHandler.get_media_pool_item
get_media_pool_item ==
    /\ pc = "get_media_pool_item"
    /\ \/ /\ Raise("ResolveAPIException")
          /\ item' = CallFailed("GetMediaPoolItem")
          /\ UNCHANGED created_clip
       \/ /\ created_clip' = timeline_item
          /\ item' = Call("GetMediaPoolItem")
          /\ pc' = "remove_timelines"
          /\ UNCHANGED error
    /\ UNCHANGED <<unchecked_may_fail, response, call_args, call_result, launcher, installation>>
    /\ UNCHANGED <<media_data, idx, pool_items, outcome, pool, filepath, media_pool_item,
                   marker_index, importing_to, compound_sources_bin, timeline, timeline_item>>
    /\ UNCHANGED history

\* media_pool.remove_timelines([timeline])
remove_timelines ==
    /\ pc = "remove_timelines"
    /\ \/ /\ timelines' = Without(timelines, timeline)
          /\ item' = Call("DeleteTimelines")
       \/ /\ unchecked_may_fail
          /\ item' = CallFailed("DeleteTimelines")
          /\ UNCHANGED timelines
    /\ pc' = "move_clips"
    /\ UNCHANGED <<unchecked_may_fail, response, call_args, call_result, launcher, installation>>
    /\ UNCHANGED <<media_data, idx, pool_items, error, outcome, folders, current_folder,
                   clips, files, next_id, locals>>
    /\ UNCHANGED history

\* move_clips leaving the clip where it is
move_clips_NoMove ==
    /\ pc = "move_clips"
    /\ \/ /\ Raise("ResolveAPIException")
          /\ item' = CallFailed("MoveClips")
          /\ UNCHANGED clips
       \/ /\ clips' = clips
          /\ item' = Call("MoveClips")
          /\ pc' = "restore_current_folder"
          /\ UNCHANGED error
    /\ UNCHANGED <<unchecked_may_fail, response, call_args, call_result, launcher, installation>>
    /\ UNCHANGED <<media_data, idx, pool_items, outcome, folders, current_folder, timelines,
                   files, next_id, locals>>
    /\ UNCHANGED history

\* media_pool.move_clips([created_clip], importing_to)
move_clips ==
    /\ pc = "move_clips"
    /\ \/ /\ Raise("ResolveAPIException")
          /\ item' = CallFailed("MoveClips")
          /\ UNCHANGED clips
       \/ /\ clips' = [clips EXCEPT ![created_clip].folder = importing_to]
          /\ item' = Call("MoveClips")
          /\ pc' = "restore_current_folder"
          /\ UNCHANGED error
    /\ UNCHANGED <<unchecked_may_fail, response, call_args, call_result, launcher, installation>>
    /\ UNCHANGED <<media_data, idx, pool_items, outcome, folders, current_folder, timelines,
                   files, next_id, locals>>
    /\ UNCHANGED history

\* media_pool.set_current_folder(importing_to); return created_clip
restore_current_folder ==
    /\ pc = "restore_current_folder"
    /\ \/ /\ Raise("ResolveAPIException")
          /\ item' = CallFailed("SetCurrentFolder")
          /\ UNCHANGED current_folder
       \/ /\ current_folder' = importing_to
          /\ item' = [Call("SetCurrentFolder") EXCEPT !.clip = created_clip,
                                                       !.import_ok = TRUE]
          /\ pc' = "append"
          /\ UNCHANGED error
    /\ UNCHANGED <<unchecked_may_fail, response, call_args, call_result, launcher, installation>>
    /\ UNCHANGED <<media_data, idx, pool_items, outcome, folders, clips, timelines, files,
                   next_id, locals>>
    /\ UNCHANGED history

(***************************************************************************)
(* Specifications                                                          *)
(***************************************************************************)
Next ==
    \/ import_json_clips
    \/ import_json_clips_return
    \/ import_json_media
    \/ for_clip_json
    \/ import_single_json_clip
    \/ append_clip
    \/ except_append_error
    \/ except_escape
    \/ add_single_clip_to_media_pool
    \/ add_media_filepaths
    \/ set_pool_item_name
    \/ set_pool_item_description
    \/ set_pool_item_comment
    \/ add_all_markers_to_pool_item
    \/ add_marker_to_pool_item
    \/ set_keywords
    \/ remove_clips
    \/ get_current_folder
    \/ get_compound_sources_bin
    \/ create_compound_sources_bin
    \/ set_current_folder
    \/ import_complex_json_clip_to_timeline
    \/ write_temporary_xml_file
    \/ add_xml_timeline
    \/ DeletingFile_close
    \/ convert_to_compound_clip
    \/ get_media_pool_item
    \/ remove_timelines
    \/ move_clips
    \/ restore_current_folder

Spec == Init /\ [][Next]_vars

\* the import against a pool whose ignored-result calls can fail
SpecUncheckedMayFail == InitUncheckedMayFail /\ [][Next]_vars

(***************************************************************************)
(* ResolveTimelineHandler.get_all_timeline_items, called on its own on a   *)
(* timeline given by its tracks: track type -> the tracks of that type,    *)
(* each the sequence of its items.                                         *)
(***************************************************************************)
\* the members of the enum TrackType, in the order of their definition
TrackType == <<"audio", "video", "subtitle">>

\* the item at position k of track i of type t
TimelineItem(t, i, k) == [track_type |-> t, track_index |-> i, position |-> k]

\* the tracks of one type, from the numbers of items of each
TracksOf(t, lengths) ==
    [i \in DOMAIN lengths |-> [k \in 1 .. lengths[i] |-> TimelineItem(t, i, k)]]

\* the timelines: up to two tracks of each type, up to MaxTrackItems items each
Timelines ==
    LET lengths == SeqsUpTo(0 .. MaxTrackItems, 2)
    IN  {[audio |-> TracksOf("audio", a), video |-> TracksOf("video", v),
          subtitle |-> TracksOf("subtitle", u)] : a \in lengths, v \in lengths, u \in lengths}

get_track_count(tl, track_type) == Len(tl[track_type])

get_item_track(tl, track_type, track_index) == tl[track_type][track_index]

\* for track_type in self.TrackType: for track_index in range(1, count + 1)
get_all_item_tracks(tl) ==
    LET of_type(t) == [i \in 1 .. get_track_count(tl, t) |-> get_item_track(tl, t, i)]
        RECURSIVE upto(_)
        upto(n) == IF n = 0 THEN <<>> ELSE upto(n - 1) \o of_type(TrackType[n])
    IN  upto(Len(TrackType))

RECURSIVE Flatten(_)

\* [item for track in tracks for item in track]
Flatten(tracks) ==
    IF tracks = <<>> THEN <<>> ELSE Head(tracks) \o Flatten(Tail(tracks))

all_timeline_items(tl) == Flatten(get_all_item_tracks(tl))

\* the rest of the program is not running
NoImport ==
    /\ unchecked_may_fail = FALSE
    /\ media_data = [decodable |-> FALSE, is_list |-> FALSE, items |-> <<>>]
    /\ InitRest([folders |-> (RootFolder :> "Master"), current |-> RootFolder])

Idle == NoImport /\ NoLauncher /\ NoInstaller

InitTimelineItems ==
    /\ Idle
    /\ call_args \in Timelines
    /\ call_result = NotCalled

\* the list convert_to_compound_clip hands to the external CreateCompoundClip
get_all_timeline_items ==
    /\ ~call_result.done
    /\ call_result' = [done |-> TRUE, value |-> all_timeline_items(call_args)]
    /\ UNCHANGED <<unchecked_may_fail, response, control, pool, locals, item, history,
                   call_args, launcher, installation>>

NextTimelineItems == get_all_timeline_items

SpecTimelineItems == InitTimelineItems /\ [][NextTimelineItems]_vars

(***************************************************************************)
(* The handles: __eq__, __ne__ and __hash__ of the five handler classes,   *)
(* called on a pair of handles.  A handle is its class and the external    *)
(* entity it wraps.                                                        *)
(***************************************************************************)
HandleTypes ==
    {"ResolveClipHandler", "ResolveTimelineItemHandler", "ResolveTimelineHandler",
     "ResolveFolderHandler", "ResolveMediaPoolHandler"}

\* two external entities of each kind
Handles == [type : HandleTypes, wraps : {"entity a", "entity b"}]

\* the attribute in which a handle of class t keeps its entity
HandleAttribute(t) ==
    CASE t = "ResolveClipHandler" -> "clip"
      [] t = "ResolveTimelineItemHandler" -> "timeline_item"
      [] t = "ResolveTimelineHandler" -> "timeline"
      [] t = "ResolveFolderHandler" -> "folder"
      [] t = "ResolveMediaPoolHandler" -> "pool"

\* the class named in the test "if type(other) is not ..." of __eq__ of class t
EqTestedType(t) ==
    IF t = "ResolveMediaPoolHandler" THEN "ResolveFolderHandler" ELSE t

\* self.__eq__(other): "True", "False" or the exception raised
handle_eq(self, other) ==
    IF other.type # EqTestedType(self.type) THEN "False"
    ELSE IF HandleAttribute(other.type) # HandleAttribute(self.type) THEN "AttributeError"
    ELSE IF self.wraps = other.wraps THEN "True"
    ELSE "False"

\* self.__ne__(other): not self.__eq__(other)
handle_ne(self, other) ==
    CASE handle_eq(self, other) = "True" -> "False"
      [] handle_eq(self, other) = "False" -> "True"
      [] OTHER -> handle_eq(self, other)

\* self.__hash__(): the hash of the wrapped entity
handle_hash(self) == self.wraps

InitHandles ==
    /\ Idle
    /\ call_args \in Handles \X Handles
    /\ call_result = NotCalled

compare_handles ==
    /\ ~call_result.done
    /\ call_result' =
          [done |-> TRUE,
           value |-> [eq |-> handle_eq(call_args[1], call_args[2]),
                      ne |-> handle_ne(call_args[1], call_args[2]),
                      hashes_equal |-> handle_hash(call_args[1]) = handle_hash(call_args[2])]]
    /\ UNCHANGED <<unchecked_may_fail, response, control, pool, locals, item, history,
                   call_args, launcher, installation>>

NextHandles == compare_handles

SpecHandles == InitHandles /\ [][NextHandles]_vars

(***************************************************************************)
(* main of packages/catdv_resolve: the single-instance guard.  Several     *)
(* instances are started in one directory and share the file .lock; each   *)
(* step below is one file-system operation, and the steps of the instances *)
(* interleave freely.                                                      *)
(***************************************************************************)
Instances == 1 .. NumInstances

\* an instance before main is called
NotStarted == [pc |-> "main", created |-> FALSE, error |-> "none", status |-> 0]

InitLauncher ==
    /\ NoImport
    /\ call_args = <<>> /\ call_result = NotCalled
    /\ lock_path = FALSE
    /\ lock_creator = NoInstance
    /\ instance = [p \in Instances |-> NotStarted]
    /\ NoInstaller

\* main up to the lock test: logger, WebviewApi, server, window
main(p) ==
    /\ instance[p].pc = "main"
    /\ instance' = [instance EXCEPT ![p].pc = "lock_path.exists"]
    /\ UNCHANGED <<lock_path, lock_creator>>

\* if lock_path.exists(): logging.fatal(...); sys.exit(2)
lock_path_exists(p) ==
    /\ instance[p].pc = "lock_path.exists"
    /\ instance' = IF lock_path
                   THEN [instance EXCEPT ![p].pc = "exited", ![p].status = 2]
                   ELSE [instance EXCEPT ![p].pc = "lock_path.touch"]
    /\ UNCHANGED <<lock_path, lock_creator>>

\* try: lock_path.touch(exist_ok=False)
lock_path_touch(p) ==
    /\ instance[p].pc = "lock_path.touch"
    /\ IF lock_path
       THEN /\ instance' = [instance EXCEPT ![p].pc = "finally",
                                            ![p].error = "FileExistsError"]
            /\ UNCHANGED <<lock_path, lock_creator>>
       ELSE /\ lock_path' = TRUE
            /\ lock_creator' = p
            /\ instance' = [instance EXCEPT ![p].pc = "webview.start", ![p].created = TRUE]

\* webview.start(...): the UI loop ends by returning or by raising
webview_start(p) ==
    /\ instance[p].pc = "webview.start"
    /\ \E e \in {"none", "Exception"} :
          instance' = [instance EXCEPT ![p].pc = "finally", ![p].error = e]
    /\ UNCHANGED <<lock_path, lock_creator>>

\* lock_path.unlink in an else clause: only when nothing was raised
lock_path_unlink_OnlyOnReturn(p) ==
    /\ instance[p].pc = "finally"
    /\ IF instance[p].error = "none"
       THEN lock_path' = FALSE /\ lock_creator' = NoInstance
       ELSE UNCHANGED <<lock_path, lock_creator>>
    /\ instance' = [instance EXCEPT ![p].pc = "exited",
                                    ![p].status = IF instance[p].error = "none" THEN 0 ELSE 1]

\* finally: lock_path.unlink(missing_ok=True); then main returns or the
\* exception in flight goes on
lock_path_unlink(p) ==
    /\ instance[p].pc = "finally"
    /\ lock_path' = FALSE
    /\ lock_creator' = NoInstance
    /\ instance' = [instance EXCEPT ![p].pc = "exited",
                                    ![p].status = IF instance[p].error = "none" THEN 0 ELSE 1]

NextLauncher ==
    /\ \E p \in Instances :
          \/ main(p)
          \/ lock_path_exists(p)
          \/ lock_path_touch(p)
          \/ webview_start(p)
          \/ lock_path_unlink(p)
    /\ UNCHANGED <<unchecked_may_fail, response, control, pool, locals, item, history,
                   call_args, call_result, installation>>

SpecLauncher == InitLauncher /\ [][NextLauncher]_vars

\* an instance that has reached the finally clause goes through it
SpecLauncherFair ==
    SpecLauncher /\ \A p \in Instances : WF_launcher(lock_path_unlink(p))

(***************************************************************************)
(* CatDVInstaller.execute on a supported platform, run up to MaxRuns times *)
(* with the same install target.  The install target directory is whether *)
(* it exists and which of venv, temp and source it holds.  The external    *)
(* processes and file operations of a step either succeed or fail.         *)
(***************************************************************************)
\* the states the install target directory is found in before the first run
InstallTargets ==
    {[exists |-> FALSE, entries |-> {}],
     [exists |-> TRUE, entries |-> {}],
     [exists |-> TRUE, entries |-> {"venv", "source"}]}

InitInstaller ==
    /\ NoImport /\ NoLauncher
    /\ call_args = <<>> /\ call_result = NotCalled
    /\ install_target \in InstallTargets
    /\ installer = [pc |-> "execute", run |-> 0, succeeded |-> "None", error |-> "none",
                    made_target |-> FALSE, step_failed |-> FALSE, retry |-> FALSE]

Goto(next) == installer' = [installer EXCEPT !.pc = next]

\* the step raises because its external process or file operation failed
StepFails(e) ==
    installer' = [installer EXCEPT !.pc = "except", !.error = e, !.step_failed = TRUE]

\* a step that leaves the directory entries as they are
ExternalStep(here, next) ==
    /\ installer.pc = here
    /\ Goto(next) \/ StepFails("OSError")
    /\ UNCHANGED install_target

\* a step that creates the entry e, which a failed step may leave behind
CreatingStep(here, next, e) ==
    /\ installer.pc = here
    /\ \/ /\ Goto(next)
          /\ install_target' = [install_target EXCEPT !.entries = @ \cup {e}]
       \/ /\ StepFails("OSError")
          /\ \E left \in {{}, {e}} :
                install_target' = [install_target EXCEPT !.entries = @ \cup left]

\* execute(log_signal) is called; retry records that the run before failed
\* after it had created the install target directory and filled it
execute ==
    /\ installer.pc = "execute"
    /\ installer.run < MaxRuns
    /\ installer' = [pc |-> "rmdir", run |-> installer.run + 1,
                     succeeded |-> installer.succeeded, error |-> "none",
                     made_target |-> FALSE, step_failed |-> FALSE,
                     retry |-> /\ installer.succeeded = "False"
                               /\ installer.made_target
                               /\ install_target.entries # {}]
    /\ UNCHANGED install_target

\* try: self.install_target_path.rmdir() except (FileNotFoundError, OSError): pass
rmdir ==
    /\ installer.pc = "rmdir"
    /\ install_target' = IF install_target.exists /\ install_target.entries = {}
                         THEN [install_target EXCEPT !.exists = FALSE]
                         ELSE install_target
    /\ Goto("mkdir")

\* self.install_target_path.mkdir(parents=True, exist_ok=False)
mkdir ==
    /\ installer.pc = "mkdir"
    /\ IF install_target.exists
       THEN /\ installer' = [installer EXCEPT !.pc = "except", !.error = "FileExistsError"]
            /\ UNCHANGED install_target
       ELSE /\ install_target' = [exists |-> TRUE, entries |-> {}]
            /\ installer' = [installer EXCEPT !.pc = "allow_read_and_execute",
                                              !.made_target = TRUE]

\* self._allow_read_and_execute(self.install_target_path)
allow_read_and_execute == ExternalStep("allow_read_and_execute", "create_venv")

create_venv == CreatingStep("create_venv", "temp_path.mkdir", "venv")

\* self.temp_path.mkdir(exist_ok=True)
temp_path_mkdir ==
    /\ installer.pc = "temp_path.mkdir"
    /\ install_target' = [install_target EXCEPT !.entries = @ \cup {"temp"}]
    /\ Goto("copy_temp")

copy_temp == ExternalStep("copy_temp", "add_activate_this_to_venv")

add_activate_this_to_venv ==
    ExternalStep("add_activate_this_to_venv", "install_dependencies_to_venv")

install_dependencies_to_venv ==
    ExternalStep("install_dependencies_to_venv", "install_platform_dependencies")

install_platform_dependencies == ExternalStep("install_platform_dependencies", "copy_source")

copy_source == CreatingStep("copy_source", "rmtree", "source")

\* rmtree(self.temp_path)
rmtree ==
    /\ installer.pc = "rmtree"
    /\ \/ /\ Goto("create_bootstrap_symlink")
          /\ install_target' = [install_target EXCEPT !.entries = @ \ {"temp"}]
       \/ /\ StepFails("OSError")
          /\ UNCHANGED install_target

create_bootstrap_symlink == ExternalStep("create_bootstrap_symlink", "return")

\* except Exception as e: self.succeeded = False; return
execute_except ==
    /\ installer.pc = "except"
    /\ installer' = [installer EXCEPT !.pc = "execute", !.succeeded = "False"]
    /\ UNCHANGED install_target

\* self.succeeded = True
execute_return ==
    /\ installer.pc = "return"
    /\ installer' = [installer EXCEPT !.pc = "execute", !.succeeded = "True"]
    /\ UNCHANGED install_target

NextInstaller ==
    /\ \/ execute
       \/ rmdir
       \/ mkdir
       \/ allow_read_and_execute
       \/ create_venv
       \/ temp_path_mkdir
       \/ copy_temp
       \/ add_activate_this_to_venv
       \/ install_dependencies_to_venv
       \/ install_platform_dependencies
       \/ copy_source
       \/ rmtree
       \/ create_bootstrap_symlink
       \/ execute_except
       \/ execute_return
    /\ UNCHANGED <<unchecked_may_fail, response, control, pool, locals, item, history,
                   call_args, call_result, launcher>>

SpecInstaller == InitInstaller /\ [][NextInstaller]_vars

(***************************************************************************)
(* Properties                                                              *)
(***************************************************************************)
\* the processing of a descriptor has just ended: item is still its record
\* and the pool is as that descriptor left it
AfterItem == pc \in {"for", "done"} /\ item.index # 0

Last == item

Desc(i) == media_data.items[i]

\* the four error kinds recorded per item, with the subclass of OSError
PerItemErrors ==
    {"ResolveAPIException", "JSONException", "OSError", "NotImplementedError",
     "FileNotFoundError"}

\* the folders of the root that carry the name of the Staging Bin
StagingBins ==
    {f \in DOMAIN folders \ {RootFolder} : folders[f] = "CatDV Compound Sources"}

\* the markers field is absent or a list of well-formed markers
MarkersAbsentOrValid(d) ==
    \/ ~d.markers.present
    \/ /\ d.markers.iterable
       /\ \A k \in DOMAIN d.markers.list :
             LET m == d.markers.list[k]
             IN  /\ m.is_dict /\ m.name = "str" /\ m.description = "str"
                 /\ m.in = "int" /\ m.out \in {"absent", "int"}

\* C1: for every list of descriptors, import_json_media returns a list of
\* the same length as the input, whatever the descriptors contain.
C1_AlignedResultList ==
    (pc = "done" /\ media_data.is_list) =>
        /\ outcome = "returned"
        /\ Len(pool_items) = Len(media_data.items)

\* C2: a failure of one of the four per-item kinds while processing
\* descriptor i never leaves import_json_media; it reaches the except clause,
\* which records it at index i and moves on to descriptor i + 1; the
\* descriptors are processed in input order, one result per descriptor.
C2_FailureIsolated ==
    /\ [](outcome = "raised" /\ media_data.is_list => error \notin PerItemErrors)
    /\ [](error # "none" => pc \in {"except", "remove_clips", "DeletingFile_close", "done"})
    /\ [](pc = "for" => Len(pool_items) = idx - 1)
    /\ [](outcome = "returned" => Len(pool_items) = Len(media_data.items))
    /\ [][(error # "none" /\ pc \in {"remove_clips", "DeletingFile_close"})
             => (pc' = "except" /\ error' = error)]_vars
    /\ [][(pc = "except" /\ error \in PerItemErrors)
             => /\ pool_items' = Append(pool_items,
                                        [kind |-> "error", clip |-> NoId, error |-> error])
                /\ Len(pool_items') = idx
                /\ idx' = idx + 1
                /\ pc' = "for"]_vars

\* a failed first descriptor is recorded at index 1 and the second
\* descriptor has been imported after it
C2_Witness ==
    /\ pc = "for" /\ idx = 3
    /\ pool_items[1].kind = "error"
    /\ pool_items[2].kind = "clip"

\* C3: when the import step of a descriptor succeeded and its population
\* failed, the clip is out of the pool before the error is recorded, and it
\* is absent from then on.
C3_Rollback ==
    /\ (pc = "except" /\ item.import_ok /\ item.populate = "failed")
          => item.clip \notin DOMAIN clips
    /\ \A i \in DOMAIN history :
          (history[i].import_ok /\ history[i].populate = "failed")
             => history[i].clip \notin DOMAIN clips

\* the call has returned with the error of a failed population recorded
\* and the clip gone
C3_Witness ==
    /\ pc = "done" /\ outcome = "returned"
    /\ \E i \in DOMAIN history :
          /\ history[i].import_ok /\ history[i].populate = "failed"
          /\ "DeleteClips" = history[i].calls[Len(history[i].calls)]
          /\ history[i].clip \notin DOMAIN clips
          /\ pool_items[i].kind = "error"

\* C4: after a compound import has returned or raised, the current folder
\* is the folder that was current before it began.
C4_FolderPointerRestored ==
    (AfterItem /\ Last.path = "complex") => current_folder = Last.before.current_folder

\* C5: after a compound import has returned or raised, the temporary XML
\* file it created does not exist.
C5_TempFileDeleted ==
    (AfterItem /\ Last.path = "complex") => Last.tempfile \notin files

\* C6: when the import step of descriptor i failed, the error is recorded
\* at index i and none of the clips created for the descriptor is in the pool.
C6_NoClipAfterFailedImport ==
    (AfterItem /\ ~Last.import_ok /\ Len(pool_items) >= Last.index) =>
        /\ pool_items[Last.index].kind = "error"
        /\ Last.created \cap DOMAIN clips = {}

\* C7: every clip handle of the result list has had population applied
\* successfully, on the simple and on the compound path.
C7_ResultClipsPopulated ==
    \A i \in DOMAIN pool_items :
        pool_items[i].kind = "clip" => history[i].populate = "ok"

\* C8: the root never has two folders named as the Staging Bin; a folder
\* is added only by create_compound_sources_bin and only when no folder of
\* that name exists; no folder is ever removed or renamed.
C8_StagingBinIdempotent ==
    /\ [](Cardinality(StagingBins) <= 1)
    /\ [][\A f \in DOMAIN folders : f \in DOMAIN folders' /\ folders'[f] = folders[f]]_vars
    /\ [][folders' # folders
             => (pc = "create_compound_sources_bin" /\ StagingBins = {})]_vars

\* two compound imports in a row: the first created the bin, the second
\* found it and switched to it
C8_Witness ==
    /\ Len(history) = 2
    /\ history[1].path = "complex" /\ history[2].path = "complex"
    /\ \E k \in DOMAIN history[1].calls : history[1].calls[k] = "AddSubFolder"
    /\ \A k \in DOMAIN history[2].calls : history[2].calls[k] # "AddSubFolder"
    /\ history[2].import_ok
    /\ Cardinality(StagingBins) = 1

C10_MissingAssetLeavesPool ==
    (AfterItem /\ Last.path = "simple" /\ Desc(Last.index).media = "missing") =>
        /\ Len(pool_items) >= Last.index
        /\ pool_items[Last.index] = [kind |-> "error", clip |-> NoId, error |-> "OSError"]
        /\ Last.calls = <<>>
        /\ Snapshot = Last.before

\* a missing file met with a clip already in the pool
C10_Witness ==
    /\ AfterItem /\ Last.path = "simple" /\ Desc(Last.index).media = "missing"
    /\ DOMAIN clips # {}
    /\ pool_items[Last.index].error = "OSError"

\* the descriptor is of none of the five supported types
UnsupportedType(d) ==
    d.is_dict /\ d.type \notin {"absent"} \cup simple_clip_types \cup complex_clip_types

\* C11: a descriptor whose type is present but none of clip, still, audio,
\* subclip, seq yields NotImplementedError at its index; a descriptor that is
\* not a mapping or has no type yields JSONException at its index; in both
\* cases no external call is made for it and the pool is as it was before.
C11_TypeDispatch ==
    (AfterItem /\ Last.path = "none") =>
        /\ Len(pool_items) >= Last.index
        /\ pool_items[Last.index] =
              [kind |-> "error", clip |-> NoId,
               error |-> IF UnsupportedType(Desc(Last.index))
                         THEN "NotImplementedError" ELSE "JSONException"]
        /\ Last.calls = <<>>
        /\ Snapshot = Last.before

\* an unsupported type met after a clip was imported, and recorded as
\* NotImplementedError
C11_Witness ==
    /\ AfterItem /\ Last.path = "none" /\ Last.index = 2
    /\ UnsupportedType(Desc(2))
    /\ pool_items[1].kind = "clip"
    /\ pool_items[2].error = "NotImplementedError"

\* the payload is not JSON or is JSON that is not a list
Malformed == ~media_data.decodable \/ ~media_data.is_list

\* C12: when the payload of import_json_clips is not decodable JSON or
\* decodes to a value that is not a list, the response is the object with
\* the single message 'Invalid JSON Provided.', no descriptor is processed
\* and no step changes the pool.
C12_MalformedInputIsFatal ==
    /\ []((pc = "responded" /\ Malformed) =>
            /\ response = [form |-> "object", message |-> <<"Invalid JSON Provided.">>]
            /\ pool_items = <<>> /\ history = <<>> /\ item = NoItem)
    /\ [][Malformed => (pool' = pool /\ item' = item)]_vars

\* a JSON value that is not a list was answered, the pool holding the
\* folders of the user
C12_Witness ==
    /\ pc = "responded" /\ media_data.decodable /\ ~media_data.is_list
    /\ response.message = <<"Invalid JSON Provided.">>
    /\ UserFolder \in DOMAIN folders

\* C13: every call of import_json_clips, on every path, returns a response
\* object of the form {"message": <string>}.
C13_ResponseIsObject ==
    pc = "responded" => (response.form = "object" /\ Len(response.message) >= 1)

\* the entries of the result list that are errors
ErrorEntries == {i \in DOMAIN pool_items : pool_items[i].kind = "error"}

\* the one of the four kinds an error entry is an instance of
KindOf(e) == CHOOSE t \in {"ResolveAPIException", "JSONException", "OSError",
                           "NotImplementedError"} : e = t \/ (e = "FileNotFoundError" /\ t = "OSError")

SummaryHead == "Some items may have been imported successfully, however:"

\* C14: for a returned batch with at least one failed item, the response is
\* the summary and carries exactly one line per distinct error kind among
\* the entries of the result list.
C14_OneLinePerKind ==
    (pc = "responded" /\ outcome = "returned" /\ ErrorEntries # {}) =>
        /\ response.message[1] = SummaryHead
        /\ Len(response.message) - 1
              = Cardinality({KindOf(pool_items[i].error) : i \in ErrorEntries})

\* C15: import_json_clips answers with the success message only if every
\* entry of the result list is a clip handle; an error recorded at some
\* index, an instance of a subclass of a caught type included, gives the
\* error summary.
C15_SuccessOnlyWithoutErrors ==
    (pc = "responded" /\ response.message = <<"Successfully added item(s) to media pool.">>) =>
        \A i \in DOMAIN pool_items : pool_items[i].kind = "clip"

\* C17: an error that is none of the four per-item kinds, raised while a
\* descriptor is processed, ends import_json_media at once without a result
\* list: nothing is appended, no further descriptor is processed, and
\* import_json_clips answers with the unexpected-exception message, not
\* with a summary or the success message.
C17_UnexpectedErrorAbortsBatch ==
    /\ [][(pc = "except" /\ error \notin PerItemErrors)
             => /\ outcome' = "raised" /\ pc' = "done"
                /\ pool_items' = pool_items /\ idx' = idx]_vars
    /\ [](outcome = "raised" => pc \in {"done", "responded"})
    /\ [][outcome = "raised" => (pool' = pool /\ pool_items' = pool_items)]_vars
    /\ []((pc = "responded" /\ outcome = "raised" /\ media_data.is_list)
            => response.message[1] = "Encountered unexpected exception.")

\* the second descriptor of a batch raised an unexpected error after the
\* first was imported, and the call was answered
C17_Witness ==
    /\ pc = "responded" /\ outcome = "raised"
    /\ Len(media_data.items) = 2 /\ Len(pool_items) = 1 /\ pool_items[1].kind = "clip"
    /\ response.message[1] = "Encountered unexpected exception."

\* C16: whenever an external call made for a descriptor signals failure with
\* a null or falsy result, ResolveAPIException is raised for that descriptor
\* (the fallback of convert_to_compound_clip to an item of video track 1
\* apart); a failed call is never followed as if it had succeeded.
C16_FalsyResultRaises ==
    [][(item'.calls # item.calls /\ item'.calls # <<>> /\ ~item'.last_ok
           /\ item'.calls[Len(item'.calls)] # "CreateCompoundClip")
          => error' = "ResolveAPIException"]_vars

\* C18: every marker of a populated clip was added at frame in.frm minus
\* the clip's start frame, with duration out.frm - in.frm when the marker
\* has an out, whatever integer out.frm is, and duration 1 when it has none.
C18_MarkerFrameMath ==
    (AfterItem /\ Last.path = "simple" /\ Last.populate = "ok"
        /\ Desc(Last.index).markers.present) =>
        LET marker_list == Desc(Last.index).markers.list
            added == clips[Last.clip].markers
            s == clips[Last.clip].start
        IN  /\ Len(added) = Len(marker_list)
            /\ \A k \in DOMAIN marker_list :
                  /\ added[k].frame = marker_list[k].in_frm - s
                  /\ added[k].duration =
                        IF marker_list[k].out = "int"
                        THEN marker_list[k].out_frm - marker_list[k].in_frm
                        ELSE 1

\* C19: a simple descriptor whose import step succeeded and whose marker
\* data is malformed (markers not a list, an entry not a mapping, a marker
\* field missing or of the wrong type) yields JSONException at its index,
\* and the batch goes on.
C19_MalformedMarkersAreInvalid ==
    (AfterItem /\ Last.path = "simple" /\ Last.import_ok
        /\ Desc(Last.index).name # "absent" /\ Desc(Last.index).ID # "absent"
        /\ ~MarkersAbsentOrValid(Desc(Last.index))) =>
        /\ outcome # "raised"
        /\ Len(pool_items) >= Last.index
        /\ pool_items[Last.index] = [kind |-> "error", clip |-> NoId, error |-> "JSONException"]

\* C20: after a compound import has returned or raised, no timeline it
\* created remains in the pool: the timelines are those that were there
\* before it began.
C20_TimelineUnwound ==
    (AfterItem /\ Last.path = "complex") =>
        DOMAIN timelines = DOMAIN Last.before.timelines

CompoundSteps ==
    <<"ImportTimelineFromFile", "CreateCompoundClip", "GetMediaPoolItem",
      "DeleteTimelines", "MoveClips", "SetCurrentFolder">>

CreateCompoundClipFailed ==
    /\ pc \in {"get_media_pool_item", "except"}
    /\ item.calls # <<>>
    /\ item.calls[Len(item.calls)] = "CreateCompoundClip"
    /\ ~item.last_ok

\* C23: when the external compound-clip creation returns no result,
\* convert_to_compound_clip returns the first item of video track 1, and
\* raises ResolveAPIException when video track 1 has no items.
C23_FallbackIsFirstItem ==
    CreateCompoundClipFailed =>
        LET video_one_items == timelines[timeline].video1
        IN  IF Len(video_one_items) = 0
            THEN pc = "except" /\ error = "ResolveAPIException"
            ELSE pc = "get_media_pool_item" /\ timeline_item = video_one_items[1]

\* the items of the tracks of one type, by ascending track index
ItemsOfType(tl, t) == Flatten(tl[t])

\* C24: the item list handed to the external compound-clip creation holds
\* every item of every track of the timeline exactly once, grouped by track
\* type in the order video, audio, subtitle and, within a type, by
\* ascending track index.
C24_ItemListOrder ==
    call_result.done =>
        /\ call_result.value = ItemsOfType(call_args, "video")
                                  \o ItemsOfType(call_args, "audio")
                                  \o ItemsOfType(call_args, "subtitle")
        /\ \A i, j \in DOMAIN call_result.value :
              call_result.value[i] = call_result.value[j] => i = j

\* the writes populate_pool_item_metadata makes for descriptor d when the
\* markers come first: one marker per entry of the list, then the name, the
\* description, the comment when notes is given, and the keywords
MarkersFirstWrites(d) ==
    [k \in 1 .. Len(d.markers.list) |-> "Marker"]
    \o <<"Clip Name", "Description">>
    \o (IF d.notes \in {"absent", "null"} THEN <<>> ELSE <<"Comments">>)
    \o <<"Keywords">>

\* C25: a populated clip received its writes in this order: every marker
\* of the descriptor's list, in list order, then the display name, the
\* description, the notes comment, the empty keyword set.
C25_PopulateOrder ==
    (AfterItem /\ Last.path = "simple" /\ Last.populate = "ok") =>
        clips[Last.clip].writes = MarkersFirstWrites(Desc(Last.index))

\* C26: whenever the population of a clip succeeded, the write of the
\* keywords was its last write and the clip's Keywords metadata is the
\* empty string, whatever keywords the clip was imported with; nothing
\* writes them again afterwards.
C26_KeywordsCleared ==
    /\ (AfterItem /\ Last.populate = "ok") =>
          LET writes == clips[Last.clip].writes
          IN  writes # <<>> /\ writes[Len(writes)] = "Keywords"
    /\ \A i \in DOMAIN history :
          history[i].populate = "ok" => clips[history[i].clip].keywords = ""

\* a clip imported with keywords was populated and has none, the
\* descriptor after it being done as well
C26_Witness ==
    /\ Len(history) = 2 /\ history[1].populate = "ok"
    /\ NewClip(RootFolder).keywords # ""
    /\ clips[history[1].clip].keywords = ""

\* C27: the step that sets the name of a clip leaves get_name() returning
\* the descriptor's name, and every clip handle of the result list whose
\* population succeeded has the name of its descriptor.
C27_NameRoundTrip ==
    /\ [][(pc = "set_pool_item_name" /\ pc' = "set_pool_item_description")
             => clips'[media_pool_item].name = clip_data.name]_vars
    /\ [](\A i \in DOMAIN pool_items :
             (pool_items[i].kind = "clip" /\ history[i].populate = "ok")
                => get_name(pool_items[i].clip) = Desc(i).name)

\* a clip the pool had named after its file is in the result list under
\* the descriptor's name, another descriptor having been imported after it
C27_Witness ==
    /\ Len(pool_items) = 2
    /\ pool_items[1].kind = "clip" /\ history[1].populate = "ok"
    /\ pool_items[2].kind = "clip"
    /\ Desc(1).name = "A" /\ NewClip(RootFolder).name # "A"
    /\ get_name(pool_items[1].clip) = "A"

\* C28: a simple import step that returned gave one clip, new to the pool;
\* when the external ImportMedia signalled failure (None, an empty list or
\* another falsy result) the descriptor yields ResolveAPIException at its
\* index and no clip handle.
C28_FalsyImportIsApiError ==
    (AfterItem /\ Last.path = "simple") =>
        /\ Last.import_ok =>
              /\ Last.clip \in Last.created
              /\ Last.clip \notin DOMAIN Last.before.clips
        /\ (Last.calls = <<"ImportMedia">> /\ ~Last.last_ok) =>
              /\ outcome # "raised"
              /\ Len(pool_items) >= Last.index
              /\ pool_items[Last.index] =
                    [kind |-> "error", clip |-> NoId, error |-> "ResolveAPIException"]

\* C29: for the five handle classes, two handles of the same class
\* wrapping the same entity are equal and have equal hashes, two handles of
\* the same class wrapping different entities are unequal, handles of
\* different classes are unequal, and no comparison raises.
C29_HandleEquality ==
    call_result.done =>
        LET self == call_args[1]
            other == call_args[2]
        IN  /\ call_result.value.eq \in {"True", "False"}
            /\ call_result.value.ne \in {"True", "False"}
            /\ call_result.value.ne # call_result.value.eq
            /\ (self.type = other.type /\ self.wraps = other.wraps) =>
                  (call_result.value.eq = "True" /\ call_result.value.hashes_equal)
            /\ (self.type = other.type /\ self.wraps # other.wraps) =>
                  call_result.value.eq = "False"
            /\ self.type # other.type => call_result.value.eq = "False"

\* the compound import of a descriptor without the XML field has ended, no
\* external call having signalled failure
MissingXmlEnded ==
    /\ AfterItem /\ Last.path = "complex" /\ Last.last_ok
    /\ Desc(Last.index).xml = "absent"

\* C30: a compound descriptor that lacks the XML field is recorded as a
\* JSONException and leaves the pool as it was: no Staging Bin created, the
\* current folder not switched, no timeline and no clip created.
C30_MissingXmlLeavesPool ==
    MissingXmlEnded =>
        /\ Len(pool_items) >= Last.index
        /\ pool_items[Last.index] =
              [kind |-> "error", clip |-> NoId, error |-> "JSONException"]
        /\ Snapshot = Last.before

\* C31: in a populated clip, a marker whose out is present with out.frm = -1
\* was added with duration 1, as a marker without out is, and not with
\* duration -1 - in.frm.
C31_SentinelOutFrame ==
    (AfterItem /\ Last.path = "simple" /\ Last.populate = "ok"
        /\ Desc(Last.index).markers.present) =>
        LET marker_list == Desc(Last.index).markers.list
            added == clips[Last.clip].markers
        IN  /\ Len(added) = Len(marker_list)
            /\ \A k \in DOMAIN marker_list :
                  (marker_list[k].out = "absent"
                     \/ (marker_list[k].out = "int" /\ marker_list[k].out_frm = -1))
                  => added[k].duration = 1

\* a clip was populated with a marker whose out.frm is -1 and whose in.frm
\* is not -2
C31_Witness ==
    /\ AfterItem /\ Last.path = "simple" /\ Last.populate = "ok"
    /\ Desc(Last.index).markers.present
    /\ \E k \in DOMAIN Desc(Last.index).markers.list :
          LET m == Desc(Last.index).markers.list[k]
          IN  /\ m.out = "int" /\ m.out_frm = -1 /\ -1 - m.in_frm # 1
              /\ k \in DOMAIN clips[Last.clip].markers
              /\ clips[Last.clip].markers[k].duration = 1

\* C32: after a simple descriptor, every clip the external import call
\* created for it is either the populated clip returned at the descriptor's
\* index or gone from the pool.
C32_NoStrayImportedItems ==
    (AfterItem /\ Last.path = "simple") =>
        \A c \in Last.created :
            c \in DOMAIN clips =>
                /\ Last.populate = "ok"
                /\ Len(pool_items) >= Last.index
                /\ pool_items[Last.index] = [kind |-> "clip", clip |-> c, error |-> "none"]

\* import_json_media was left by an unexpected error raised for a descriptor
BatchAborted ==
    /\ pc \in {"done", "responded"} /\ outcome = "raised"
    /\ media_data.is_list /\ item.index # 0

\* C33: when the batch aborts on an unexpected error at descriptor i, no
\* descriptor after i is processed, the clips imported and populated for
\* the descriptors before i are still in the pool, and the answer to the
\* caller is the bare unexpected-exception message, naming none of them.
C33_NoBatchRollback ==
    BatchAborted =>
        /\ idx = item.index /\ Len(history) = item.index
        /\ history[item.index].index = item.index
        /\ Len(pool_items) = item.index - 1
        /\ \A j \in DOMAIN pool_items :
              pool_items[j].kind = "clip" =>
                  /\ pool_items[j].clip \in DOMAIN clips
                  /\ history[j].populate = "ok" \/ history[j].path = "complex"
        /\ pc = "responded" =>
              response = BareString(<<"Encountered unexpected exception.", "traceback">>)

\* the second descriptor of a batch raised an unexpected error, the call
\* was answered, and the populated clip of the first is in the pool
C33_Witness ==
    /\ BatchAborted /\ pc = "responded" /\ item.index = 2
    /\ pool_items[1].kind = "clip" /\ pool_items[1].clip \in DOMAIN clips
    /\ history[1].populate = "ok"
    /\ clips[pool_items[1].clip].writes # <<>>

\* the instances inside webview.start
RunningUI == {p \in DOMAIN instance : instance[p].pc = "webview.start"}

\* C34: of the instances of main started in one directory, at most one is
\* inside webview.start at any time, whatever the interleaving of their
\* lock-file tests and creations.
C34_SingleInstance == Cardinality(RunningUI) <= 1

\* C35: no step of an instance that did not create the .lock file deletes
\* the file, neither its exit with status 2 nor the failure of its own
\* creation attempt.
C35_OnlyCreatorDeletes ==
    [][\A p \in DOMAIN instance :
          (instance'[p] # instance[p] /\ lock_path /\ ~lock_path') => lock_creator = p]_vars

\* C36: the instance that created the .lock file reaches the finally
\* clause when webview.start returns and when it raises, goes through it,
\* and leaves no lock file behind; the file exists only while its creator
\* is inside the try statement.
C36_CreatorRemovesLock ==
    /\ [][\A p \in DOMAIN instance :
             (instance[p].pc = "webview.start" /\ instance'[p] # instance[p])
                => (instance'[p].pc = "finally" /\ instance'[p].created)]_vars
    /\ [][\A p \in DOMAIN instance :
             (instance[p].created /\ instance[p].pc = "finally" /\ instance'[p] # instance[p])
                => (instance'[p].pc = "exited" /\ ~lock_path')]_vars
    /\ \A p \in Instances :
          (instance[p].created /\ instance[p].pc = "finally") ~> (instance[p].pc = "exited")
    /\ [](lock_path => \E p \in DOMAIN instance :
                          instance[p].created /\ instance[p].pc \in {"webview.start", "finally"})

\* webview.start of the creator of the lock file raised, the creator is
\* gone, the file is gone, and another instance is still to be started
C36_Witness ==
    \E p, q \in DOMAIN instance :
        /\ instance[p].created /\ instance[p].error = "Exception"
        /\ instance[p].pc = "exited"
        /\ ~lock_path
        /\ instance[q].pc = "main"

\* a run of execute on a retry has ended without any of its external
\* processes or file operations failing
RetryEnded ==
    /\ installer.pc = "execute" /\ installer.run > 1
    /\ installer.retry /\ ~installer.step_failed

\* C37: when a run of execute failed after it had created and filled the
\* install target directory, a later run with the same install target in
\* which every step succeeds ends with succeeded = True.
C37_ExecuteCanBeRetried == RetryEnded => installer.succeeded = "True"

====
